---- MODULE Spec2Model ----
(***************************************************************************)
(* A model of the fpl-chatbot front end: the streaming chat view           *)
(* (ChatPage, three revisions), the readiness poller (ServerStatusProvider,*)
(* three revisions), the identifier form (LoginPage, three revisions) with *)
(* the routes of App, and the fixture list (FixturesPage, three revisions).*)
(* Every handler is one action; every await is a point where other         *)
(* handlers may run.  Ghost variables (ev and the request fields incs,     *)
(* turn, respOk, outcome) only record what happened.                       *)
(***************************************************************************)
EXTENDS Integers, Sequences, FiniteSets, TLC

\* ------------------------------------------------------------------------
\* Bounds of the model
\* ------------------------------------------------------------------------
\* accepted sends of one ChatPage
MaxSends == 2
\* increments delivered to one ChatPage, over all its responses
MaxChunks == 3
\* runs of the provider's polling effect (mount and teamId changes)
MaxRuns == 2
\* status checks started by one provider
MaxChecks == 4
\* team-fetch calls issued by the identifier form
MaxFetches == 2

\* calls of handleLogin in a sequence of calls made on App directly
MaxCalls == 4

\* ------------------------------------------------------------------------
\* Text.  A text is a sequence of characters; a response increment is a
\* sequence of bytes.  "A" is the one-byte character "a"; "L" "T" are the
\* lead and the trail byte of the two-byte character "e"; "?" is U+FFFD.
\* ------------------------------------------------------------------------
Chunks == {<<"A">>, <<"L">>, <<"T">>}

\* what the user can have typed into the chat field
Inputs == {<<>>, <<" ">>, <<" ", "q">>}

\* 'Sorry, I had a problem thinking. Please try again.'
Apology == <<"S">>

\* `Hi! I'm ready to help with your FPL team (ID: ${teamId}). ...`
Greeting == <<"G">>

ChatVariants == {"first", "ctx", "dedup"}

\* the greeting of the context-based revision names the provider's teamId
GreetingTurn(t) == [role |-> "assistant", text |-> Greeting \o <<t>>, error |-> FALSE]

\* useEffect(() => { if (teamId) setMessages([greeting]) }, [teamId]) of the
\* context-based revision, run for a teamId that has changed to t
GreetingEffect(v, prev, t) ==
  IF v = "ctx" /\ t # "undefined" THEN <<GreetingTurn(t)>> ELSE prev

\* the name the revision gives to the answering side
BotRole(v) == IF v = "ctx" THEN "assistant" ELSE "bot"

RECURSIVE TrimStart(_)
TrimStart(s) ==
  IF s # <<>> /\ Head(s) = " " THEN TrimStart(Tail(s)) ELSE s

RECURSIVE TrimEnd(_)
TrimEnd(s) ==
  IF s # <<>> /\ s[Len(s)] = " " THEN TrimEnd(SubSeq(s, 1, Len(s) - 1)) ELSE s

\* String.prototype.trim
Trim(s) == TrimEnd(TrimStart(s))

\* UTF-8 decoding of bytes after a possibly pending lead byte
RECURSIVE DecodeBytes(_, _, _)
DecodeBytes(bytes, pend, out) ==
  IF bytes = <<>> THEN [text |-> out, pend |-> pend]
  ELSE LET b == Head(bytes)
           rest == Tail(bytes)
       IN IF pend
          THEN IF b = "T" THEN DecodeBytes(rest, FALSE, Append(out, "e"))
               ELSE IF b = "L" THEN DecodeBytes(rest, TRUE, Append(out, "?"))
               ELSE DecodeBytes(rest, FALSE, out \o <<"?", "a">>)
          ELSE IF b = "A" THEN DecodeBytes(rest, FALSE, Append(out, "a"))
               ELSE IF b = "L" THEN DecodeBytes(rest, TRUE, out)
               ELSE DecodeBytes(rest, FALSE, Append(out, "?"))

\* decoder.decode(value, { stream: true }): an incomplete character waits
DecodeStream(bytes, pend) == DecodeBytes(bytes, pend, <<>>)

\* decoder.decode(value): every call starts afresh and flushes at its end
DecodeWhole(bytes, pend) ==
  LET r == DecodeBytes(bytes, FALSE, <<>>)
  IN [text |-> IF r.pend THEN Append(r.text, "?") ELSE r.text, pend |-> FALSE]

\* the decode call of the revision
Decode(v, bytes, pend) ==
  IF v = "first" THEN DecodeWhole(bytes, pend) ELSE DecodeStream(bytes, pend)

RECURSIVE Flatten(_)
Flatten(ss) == IF ss = <<>> THEN <<>> ELSE Head(ss) \o Flatten(Tail(ss))

\* a value that is undefined or null in the program
Undef == "undefined"

VARIABLES
  chatVariant,    \* the ChatPage revision that is mounted
  messages,       \* useState([]) of ChatPage, after the greeting effect
  input,          \* useState('') of ChatPage
  isLoading,      \* useState(false) of ChatPage
  requests,       \* the chat requests issued so far, oldest first
  chunksRead,     \* increments delivered so far
  ev,             \* "rejected" after a handleSend that returned at its guard
  provVariant,    \* the ServerStatusProvider revision
  isServerReady,  \* useState(false) of ServerStatusProvider
  statusMessage,  \* useState('Connecting to server...')
  currentGameweek, \* useState(null)
  teamId,         \* useState(teamIdFromUrl)
  userTeamData,   \* useState(null), of the revision with fetchUserTeam
  teamFetches,    \* fetchUserTeam calls awaiting their response
  runs,           \* the runs of the polling effect, oldest first
  checksStarted,  \* status checks started so far
  readySeen,      \* some status check has returned true
  lateNotReady,   \* a failed or not-ready response was handled after readiness
  backendUp,      \* the status endpoint answers ready from now on
  loginVariant,   \* the LoginPage revision
  inputId,        \* useState('') of LoginPage
  error,          \* useState('') of LoginPage
  loading,        \* useState(false) of LoginPage
  loginReq,       \* the team-fetch call awaiting its response, if any
  fetchLog,       \* the identifiers of the team-fetch calls issued, oldest first
  loginCalls,     \* the identifiers onLogin was invoked with, oldest first
  fplTeamId,      \* localStorage's entry fplTeamId
  appTeamId,      \* useState(localStorage.getItem('fplTeamId') || null) of App
  teamResp,       \* the response the team-fetch call got last
  fxVariant,      \* the FixturesPage revision
  fxMounted,      \* the FixturesPage is on screen
  fixturesData,   \* useState([]) of FixturesPage: the difficulties of one team
  fxLoading,      \* useState(true) of FixturesPage
  fxError,        \* useState('') of FixturesPage
  fxStatusMessage, \* useState('Connecting to server...') of FixturesPage
  fxPc,           \* where startFetching is: idle, first, polling or stopped
  fxInflight,     \* status checks of the page's timer awaiting their response
  fxChecks,       \* status checks started by the page
  fxFetches,      \* fetchFixtures calls awaiting their response
  appVariant,     \* which revision of App the routes are of
  location,       \* the path the router is at
  lgMounted,      \* LeaguesPage is on screen
  lgTimer,        \* its 60 s interval is set
  lgInflight,     \* live-gameweek requests of this mount awaiting a response
  lgIssued,       \* live-gameweek requests issued so far
  lgLoading,      \* its loading flag
  lgError,        \* its error text
  liveData,       \* its liveData
  cpPc,           \* ChipsPage: "idle" before its effect, "fetching", "done"
  cpLoading,      \* its loading flag
  cpError,        \* its error text
  chipData        \* its chipData

chatVars == <<chatVariant, messages, input, isLoading, requests, chunksRead>>

pollVars == <<provVariant, isServerReady, statusMessage, currentGameweek, teamId,
              userTeamData, teamFetches, runs, checksStarted, readySeen,
              lateNotReady, backendUp>>

loginVars == <<loginVariant, inputId, error, loading, loginReq, fetchLog,
               loginCalls, fplTeamId, appTeamId, teamResp>>

fixVars == <<fxVariant, fxMounted, fixturesData, fxLoading, fxError,
             fxStatusMessage, fxPc, fxInflight, fxChecks, fxFetches>>

routeVars == <<appVariant, location>>

leagueVars == <<lgMounted, lgTimer, lgInflight, lgIssued, lgLoading, lgError,
                liveData>>

chipVars == <<cpPc, cpLoading, cpError, chipData>>

viewVars == <<routeVars, leagueVars, chipVars>>

vars == <<chatVars, ev, pollVars, loginVars, fixVars, viewVars>>

InFlight == {i \in DOMAIN requests : requests[i].phase # "done"}

\* ------------------------------------------------------------------------
\* ChatPage
\* ------------------------------------------------------------------------

\* the guard without its isLoading test
SendAcceptedNoBusy ==
  /\ Trim(input) # <<>>
  /\ (chatVariant = "ctx" => isServerReady)

\* if (!input.trim() || isLoading [|| !isServerReady]) return;
SendAccepted ==
  /\ Trim(input) # <<>>
  /\ ~isLoading
  /\ (chatVariant = "ctx" => isServerReady)

\* { role: 'assistant', text: '', error: false }
Placeholder == [role |-> BotRole(chatVariant), text |-> <<>>, error |-> FALSE]

\* the user turn built from the trimmed input
AppendTurnsTrimmed(prev, text) ==
  prev \o <<[role |-> "user", text |-> Trim(text), error |-> FALSE], Placeholder>>

\* setMessages(prev => [...prev, userMessage, placeholder])
AppendTurns(prev, text) ==
  prev \o <<[role |-> "user", text |-> text, error |-> FALSE], Placeholder>>

\* a body whose history is read after the two new turns were appended
RequestBodyWithNewTurns ==
  [question |-> input,
   history |-> IF chatVariant = "ctx"
               THEN [k \in DOMAIN AppendTurns(messages, input) |->
                       [role |-> AppendTurns(messages, input)[k].role,
                        text |-> AppendTurns(messages, input)[k].text]]
               ELSE <<>>]

\* the body of the POST: history is sent by the context-based revision only
RequestBody ==
  [question |-> input,
   history |-> IF chatVariant = "ctx"
               THEN [k \in DOMAIN messages |->
                       [role |-> messages[k].role, text |-> messages[k].text]]
               ELSE <<>>]

NewRequest ==
  [phase |-> "fetching", body |-> RequestBody, turn |-> Len(messages) + 2,
   respOk |-> FALSE, botResponse |-> <<>>, lastChunk |-> <<>>, pend |-> FALSE,
   incs |-> <<>>, outcome |-> "pending"]

\* onChange of the text field
SetInput(v) ==
  /\ v # input
  /\ input' = v
  /\ ev' = "step"
  /\ UNCHANGED <<chatVariant, messages, isLoading, requests, chunksRead, pollVars, loginVars, fixVars, viewVars>>

\* onSubmit of the form: handleSend up to its first await
HandleSend ==
  IF SendAccepted
  THEN /\ Len(requests) < MaxSends
       /\ messages' = AppendTurns(messages, input)
       /\ input' = <<>>
       /\ isLoading' = TRUE
       /\ requests' = Append(requests, NewRequest)
       /\ ev' = "step"
       /\ UNCHANGED <<chatVariant, chunksRead, pollVars, loginVars, fixVars, viewVars>>
  ELSE /\ ev' = "rejected"
       /\ UNCHANGED <<chatVariant, messages, input, isLoading, requests, chunksRead, pollVars, loginVars, fixVars, viewVars>>

\* a catch block that forgets the error flag
CatchUpdateTextOnly(prev) ==
  IF prev = <<>> THEN prev ELSE [prev EXCEPT ![Len(prev)].text = Apology]

\* a catch block that takes the placeholder away
CatchUpdateDropsTurn(prev) ==
  IF prev = <<>> THEN prev ELSE SubSeq(prev, 1, Len(prev) - 1)

\* the catch block's updater
CatchUpdate(prev) ==
  IF prev = <<>>
  THEN IF chatVariant = "first"
       THEN <<[role |-> "none", text |-> Apology, error |-> FALSE]>>
       ELSE prev
  ELSE LET n == Len(prev)
       IN IF chatVariant = "first"
          THEN [prev EXCEPT ![n].text = Apology]
          ELSE IF prev[n].role = BotRole(chatVariant)
               THEN [prev EXCEPT ![n].text = Apology, ![n].error = TRUE]
               ELSE prev

\* a handler without its finally block
FailKeepsBusy(i) ==
  /\ messages' = CatchUpdate(messages)
  /\ isLoading' = isLoading
  /\ requests' = [requests EXCEPT ![i].phase = "done", ![i].outcome = "failed"]

\* catch { ... } finally { setIsLoading(false) }
Fail(i) ==
  /\ messages' = CatchUpdate(messages)
  /\ isLoading' = FALSE
  /\ requests' = [requests EXCEPT ![i].phase = "done", ![i].outcome = "failed"]

\* await fetch(...) rejects: the request never got a response
FetchReject(i) ==
  /\ i \in DOMAIN requests
  /\ requests[i].phase = "fetching"
  /\ Fail(i)
  /\ ev' = "step"
  /\ UNCHANGED <<chatVariant, input, chunksRead, pollVars, loginVars, fixVars, viewVars>>

\* does the revision go on to read this response?
ResponseUsable(ok, hasBody) ==
  IF chatVariant = "first" THEN hasBody ELSE ok /\ hasBody

\* await fetch(...) resolves with a response
FetchResolve(i, ok, hasBody) ==
  /\ i \in DOMAIN requests
  /\ requests[i].phase = "fetching"
  /\ IF ResponseUsable(ok, hasBody)
     THEN /\ requests' = [requests EXCEPT ![i].phase = "reading", ![i].respOk = ok]
          /\ UNCHANGED <<messages, isLoading>>
     ELSE IF chatVariant = "first"
          \* if (!response.body) return;  then finally
          THEN /\ requests' = [requests EXCEPT ![i].phase = "done",
                                               ![i].respOk = ok,
                                               ![i].outcome = "nobody"]
               /\ isLoading' = FALSE
               /\ UNCHANGED messages
          \* throw new Error('Failed to get a valid response from the server.')
          ELSE Fail(i)
  /\ ev' = "step"
  /\ UNCHANGED <<chatVariant, input, chunksRead, pollVars, loginVars, fixVars, viewVars>>

\* every revision dropping an increment equal to the one before it
ChunkAppliedDedup(r, chunk) == chunk # r.lastChunk

\* is the increment handed to setMessages?
ChunkApplied(r, chunk) ==
  IF chatVariant = "dedup" THEN chunk # r.lastChunk ELSE TRUE

\* the updater of the read loop
ChunkUpdate(prev, chunk, botResponse) ==
  IF prev = <<>>
  THEN IF chatVariant = "first"
       THEN <<[role |-> "none", text |-> chunk, error |-> FALSE]>>
       ELSE prev
  ELSE LET n == Len(prev)
       IN CASE chatVariant = "first" ->
                 [prev EXCEPT ![n].text = prev[n].text \o chunk]
            [] chatVariant = "dedup" ->
                 [prev EXCEPT ![n].text = prev[n].text \o chunk]
            [] OTHER ->
                 IF prev[n].role = "assistant"
                 THEN [prev EXCEPT ![n].text = botResponse]
                 ELSE prev

\* reader.read() resolves with { value, done: false }
ReadChunk(i, bytes) ==
  /\ i \in DOMAIN requests
  /\ requests[i].phase = "reading"
  /\ chunksRead < MaxChunks
  /\ LET r == requests[i]
         d == Decode(chatVariant, bytes, r.pend)
         chunk == d.text
         applied == ChunkApplied(r, chunk)
         bot == r.botResponse \o chunk
     IN /\ messages' = IF applied THEN ChunkUpdate(messages, chunk, bot)
                       ELSE messages
        /\ requests' = [requests EXCEPT
                          ![i].pend = d.pend,
                          ![i].botResponse = bot,
                          ![i].lastChunk = IF applied THEN chunk ELSE r.lastChunk,
                          ![i].incs = Append(r.incs, chunk)]
  /\ chunksRead' = chunksRead + 1
  /\ ev' = "step"
  /\ UNCHANGED <<chatVariant, input, isLoading, pollVars, loginVars, fixVars, viewVars>>

\* a read loop that ends without the finally block
ReadDoneKeepsBusy(i) ==
  /\ i \in DOMAIN requests
  /\ requests[i].phase = "reading"
  /\ requests' = [requests EXCEPT ![i].phase = "done", ![i].outcome = "ended"]
  /\ isLoading' = isLoading
  /\ ev' = "step"
  /\ UNCHANGED <<chatVariant, messages, input, chunksRead, pollVars, loginVars, fixVars, viewVars>>

\* reader.read() resolves with { done: true }: break, then finally
ReadDone(i) ==
  /\ i \in DOMAIN requests
  /\ requests[i].phase = "reading"
  /\ requests' = [requests EXCEPT ![i].phase = "done", ![i].outcome = "ended"]
  /\ isLoading' = FALSE
  /\ ev' = "step"
  /\ UNCHANGED <<chatVariant, messages, input, chunksRead, pollVars, loginVars, fixVars, viewVars>>

\* reader.read() rejects
ReadError(i) ==
  /\ i \in DOMAIN requests
  /\ requests[i].phase = "reading"
  /\ Fail(i)
  /\ ev' = "step"
  /\ UNCHANGED <<chatVariant, input, chunksRead, pollVars, loginVars, fixVars, viewVars>>

\* ------------------------------------------------------------------------
\* ServerStatusProvider
\* ------------------------------------------------------------------------
\* "static": contexts/ServerStatusContext.jsx, effect with no dependencies
\* "keyedTeam": the provider with fetchUserTeam, effect keyed on teamId
\* "keyed": the provider with currentGameweek, effect keyed on teamId
ProvVariants == {"static", "keyedTeam", "keyed"}

\* the teamId parameter of the URL
TeamIds == {"t1", "t2"}

Gameweeks == {1, 2}

\* useState(null) of currentGameweek
NoGameweek == 0

\* what a status check can get back: no response at all (net = FALSE), a
\* non-success code, or a payload
StatusResponses ==
  {[net |-> FALSE, ok |-> FALSE, status |-> "none", players |-> 0, gw |-> NoGameweek],
   [net |-> TRUE, ok |-> FALSE, status |-> "none", players |-> 0, gw |-> NoGameweek]}
  \cup [net : {TRUE}, ok : {TRUE}, status : {"ok", "starting"},
        players : {0, 3}, gw : Gameweeks]

Msg(t) == [text |-> t, gw |-> NoGameweek]

\* the test of checkStatus on a parsed payload
PayloadReady(resp) ==
  CASE provVariant = "static" -> resp.players > 0
    [] provVariant = "keyedTeam" -> resp.status = "ok" /\ resp.players > 0
    [] OTHER -> resp.status = "ok"

\* the value checkStatus returns
CheckResult(resp) == resp.net /\ resp.ok /\ PayloadReady(resp)

\* the message checkStatus sets
CheckMessage(resp) ==
  IF CheckResult(resp)
  THEN IF provVariant = "static" THEN Msg("ready") ELSE [text |-> "ready", gw |-> resp.gw]
  ELSE IF resp.net /\ resp.ok THEN Msg("starting") ELSE Msg("unreachable")

\* a checkStatus that returns true without setting the readiness flag
CheckStatusNoFlag(resp, team) ==
  /\ isServerReady' = isServerReady
  /\ statusMessage' = CheckMessage(resp)
  /\ currentGameweek' = IF CheckResult(resp) /\ provVariant # "static"
                        THEN resp.gw ELSE currentGameweek
  /\ teamFetches' = IF CheckResult(resp) /\ provVariant = "keyedTeam" /\ team # "undefined"
                    THEN teamFetches \cup {team} ELSE teamFetches
  /\ readySeen' = (readySeen \/ CheckResult(resp))
  /\ lateNotReady' = (lateNotReady \/ (isServerReady /\ ~CheckResult(resp)))

\* a readiness flag that follows the result of every check
ReadyAfterResult(resp) == CheckResult(resp)

\* the readiness flag after checkStatus handled resp
ReadyAfter(resp) == IF CheckResult(resp) THEN TRUE ELSE isServerReady

\* checkStatus from its response on, for a check of the effect run for team
CheckStatus(resp, team) ==
  /\ isServerReady' = ReadyAfter(resp)
  /\ statusMessage' = CheckMessage(resp)
  /\ currentGameweek' = IF CheckResult(resp) /\ provVariant # "static"
                        THEN resp.gw ELSE currentGameweek
  \* if (teamId) fetchUserTeam(teamId, data.current_gameweek)
  /\ teamFetches' = IF CheckResult(resp) /\ provVariant = "keyedTeam" /\ team # Undef
                    THEN teamFetches \cup {team} ELSE teamFetches
  /\ readySeen' = (readySeen \/ CheckResult(resp))
  /\ lateNotReady' = (lateNotReady \/ (isServerReady /\ ~CheckResult(resp)))

\* pollServer() up to its first await: the first check is on its way
PollServer(team) ==
  /\ Len(runs) < MaxRuns
  /\ checksStarted < MaxChecks
  /\ runs' = Append(runs, [pc |-> "first", inflight |-> 0, team |-> team,
                           firstResult |-> "pending"])
  /\ checksStarted' = checksStarted + 1

\* the effect of the provider runs after mount
MountEffect ==
  /\ runs = <<>>
  /\ PollServer(teamId)
  /\ ev' = "step"
  /\ UNCHANGED <<backendUp, provVariant, isServerReady, statusMessage, currentGameweek, teamId,
                 userTeamData, teamFetches, readySeen, lateNotReady, chatVars, loginVars, fixVars, viewVars>>

\* the URL's teamId changes: setTeamId(teamIdFromUrl), and the effects keyed
\* on teamId run again: pollServer of the provider and the greeting effect
\* of the ChatPage that reads teamId from the provider
NavigateTeam(t) ==
  /\ provVariant # "static"
  /\ runs # <<>>
  /\ t # teamId
  /\ teamId' = t
  /\ PollServer(t)
  /\ messages' = GreetingEffect(chatVariant, messages, t)
  /\ ev' = "step"
  /\ UNCHANGED <<backendUp, provVariant, isServerReady, statusMessage, currentGameweek,
                 userTeamData, teamFetches, readySeen, lateNotReady,
                 chatVariant, input, isLoading, requests, chunksRead, loginVars, fixVars, viewVars>>

\* the status endpoint has finished loading: from now on it answers ready
BackendComesUp ==
  /\ ~backendUp
  /\ backendUp' = TRUE
  /\ ev' = "step"
  /\ UNCHANGED <<provVariant, isServerReady, statusMessage, currentGameweek, teamId,
                 userTeamData, teamFetches, runs, checksStarted, readySeen,
                 lateNotReady, chatVars, loginVars, fixVars, viewVars>>

\* a pollServer that returns after its first check whatever it reported
FirstCheckDoneNoTimer(r, resp) ==
  /\ r \in DOMAIN runs
  /\ runs[r].pc = "first"
  /\ backendUp => CheckResult(resp)
  /\ CheckStatus(resp, runs[r].team)
  /\ runs' = [runs EXCEPT
                ![r].pc = "stopped",
                ![r].firstResult = IF CheckResult(resp) THEN "ready" ELSE "notReady"]
  /\ ev' = "step"
  /\ UNCHANGED <<backendUp, provVariant, teamId, userTeamData, checksStarted, chatVars, loginVars, fixVars, viewVars>>

\* if (await checkStatus()) return;  otherwise setInterval(...)
FirstCheckDone(r, resp) ==
  /\ r \in DOMAIN runs
  /\ runs[r].pc = "first"
  /\ backendUp => CheckResult(resp)
  /\ CheckStatus(resp, runs[r].team)
  /\ runs' = [runs EXCEPT
                ![r].pc = IF CheckResult(resp) THEN "stopped" ELSE "polling",
                ![r].firstResult = IF CheckResult(resp) THEN "ready" ELSE "notReady"]
  /\ ev' = "step"
  /\ UNCHANGED <<backendUp, provVariant, teamId, userTeamData, checksStarted, chatVars, loginVars, fixVars, viewVars>>

\* a timer callback that announces the check it starts
TickSetsMessage(r) ==
  /\ r \in DOMAIN runs
  /\ runs[r].pc = "polling"
  /\ checksStarted < MaxChecks
  /\ runs' = [runs EXCEPT ![r].inflight = @ + 1]
  /\ checksStarted' = checksStarted + 1
  /\ statusMessage' = Msg("connecting")
  /\ ev' = "step"
  /\ UNCHANGED <<backendUp, provVariant, isServerReady, currentGameweek, teamId,
                 userTeamData, teamFetches, readySeen, lateNotReady, chatVars, loginVars, fixVars, viewVars>>

\* the interval fires: its callback starts a check and awaits it
Tick(r) ==
  /\ r \in DOMAIN runs
  /\ runs[r].pc = "polling"
  /\ checksStarted < MaxChecks
  /\ runs' = [runs EXCEPT ![r].inflight = @ + 1]
  /\ checksStarted' = checksStarted + 1
  /\ ev' = "step"
  /\ UNCHANGED <<backendUp, provVariant, isServerReady, statusMessage, currentGameweek, teamId,
                 userTeamData, teamFetches, readySeen, lateNotReady, chatVars, loginVars, fixVars, viewVars>>

\* a timer callback that never clears its interval
TimerCheckDoneNoClear(r, resp) ==
  /\ r \in DOMAIN runs
  /\ runs[r].inflight > 0
  /\ backendUp => CheckResult(resp)
  /\ CheckStatus(resp, runs[r].team)
  /\ runs' = [runs EXCEPT ![r].inflight = @ - 1]
  /\ ev' = "step"
  /\ UNCHANGED <<backendUp, provVariant, teamId, userTeamData, checksStarted, chatVars, loginVars, fixVars, viewVars>>

\* if (await checkStatus()) clearInterval(intervalId);
TimerCheckDone(r, resp) ==
  /\ r \in DOMAIN runs
  /\ runs[r].inflight > 0
  /\ backendUp => CheckResult(resp)
  /\ CheckStatus(resp, runs[r].team)
  /\ runs' = [runs EXCEPT
                ![r].inflight = @ - 1,
                ![r].pc = IF CheckResult(resp) THEN "stopped" ELSE @]
  /\ ev' = "step"
  /\ UNCHANGED <<backendUp, provVariant, teamId, userTeamData, checksStarted, chatVars, loginVars, fixVars, viewVars>>

\* fetchUserTeam from its response on
UserTeamDone(t, ok) ==
  /\ t \in teamFetches
  /\ teamFetches' = teamFetches \ {t}
  /\ userTeamData' = IF ok THEN t ELSE userTeamData
  /\ ev' = "step"
  /\ UNCHANGED <<backendUp, provVariant, isServerReady, statusMessage, currentGameweek, teamId,
                 runs, checksStarted, readySeen, lateNotReady, chatVars, loginVars, fixVars, viewVars>>

\* ------------------------------------------------------------------------
\* LoginPage and App
\* ------------------------------------------------------------------------
\* "plain": pages/LoginPage.jsx;  "catchJson": the revision that reads the
\* error body with .catch(() => ({}));  "nested": the revision with a try
\* block around the throw
LoginVariants == {"plain", "catchJson", "nested"}

\* what the user can have typed into the identifier field
IdInputs == {<<>>, <<"7">>, <<"7", "0">>, <<"-", "7">>, <<"7", " ">>, <<"7", ".", "0">>, <<"x">>}

Digits == {"0", "1", "2", "3", "4", "5", "6", "7", "8", "9"}

\* the test without its anchors: /\d+/.test(inputId)
IsNumericIdUnanchored(s) == \E k \in DOMAIN s : s[k] \in Digits

\* /^\d+$/.test(inputId)
IsNumericId(s) == s # <<>> /\ \A k \in DOMAIN s : s[k] \in Digits

\* no identifier: null from localStorage.getItem, no call awaiting a response
NoId == <<"null">>

ValidationMsg == "Please enter a valid FPL Team ID (numbers only)."

\* the detail field of an error body: absent, empty or a message
Details == {Undef, "", "Team ID not found"}

\* what the team-fetch call can get back: no response at all (net = FALSE),
\* success, or a non-success code with a body that is JSON or is not
TeamResponses ==
  {[net |-> FALSE, ok |-> FALSE, json |-> FALSE, detail |-> Undef],
   [net |-> TRUE, ok |-> TRUE, json |-> TRUE, detail |-> Undef],
   [net |-> TRUE, ok |-> FALSE, json |-> FALSE, detail |-> Undef]}
  \cup [net : {TRUE}, ok : {FALSE}, json : {TRUE}, detail : Details]

\* errorData.detail || fallback
DetailOr(detail, fallback) ==
  IF detail = Undef \/ detail = "" THEN fallback ELSE detail

\* the message of the error that reaches the outer catch for a non-success
\* response
RejectionText(resp) ==
  CASE loginVariant = "plain" ->
         IF resp.json
         THEN DetailOr(resp.detail, "Team ID not found. Please check and try again.")
         ELSE "SyntaxError"
    [] loginVariant = "catchJson" ->
         DetailOr(IF resp.json THEN resp.detail ELSE Undef, "Team ID not found or invalid.")
    [] OTHER ->
         \* the inner catch also catches the Error thrown with the detail
         "Error: status statusText"

\* onChange of the identifier field (the nested revision disables the field
\* while loading)
SetInputId(v) ==
  /\ appTeamId = NoId
  /\ v # inputId
  /\ loginVariant = "nested" => ~loading
  /\ inputId' = v
  /\ ev' = "step"
  /\ UNCHANGED <<loginVariant, error, loading, loginReq, fetchLog, loginCalls,
                 fplTeamId, appTeamId, teamResp, chatVars, pollVars, fixVars, viewVars>>

\* onSubmit of the form (its button is disabled while loading): handleSubmit
\* up to its first await
HandleSubmit ==
  /\ appTeamId = NoId
  /\ ~loading
  /\ IF ~IsNumericId(inputId)
     THEN /\ error' = ValidationMsg
          /\ UNCHANGED <<loading, loginReq, fetchLog>>
     ELSE /\ Len(fetchLog) < MaxFetches
          /\ loading' = TRUE
          /\ error' = ""
          /\ loginReq' = inputId
          /\ fetchLog' = Append(fetchLog, inputId)
  /\ ev' = "submit"
  /\ UNCHANGED <<loginVariant, inputId, loginCalls, fplTeamId, appTeamId,
                 teamResp, chatVars, pollVars, fixVars, viewVars>>

\* a handleLogin that sets the state and leaves the slot alone
HandleLoginNoStore(id) ==
  /\ fplTeamId' = fplTeamId
  /\ appTeamId' = id
  /\ loginCalls' = Append(loginCalls, id)
  /\ inputId' = <<>>
  /\ error' = ""
  /\ loading' = FALSE

\* handleLogin of App; the route then replaces LoginPage, whose state is lost
HandleLogin(id) ==
  /\ fplTeamId' = id
  /\ appTeamId' = id
  /\ loginCalls' = Append(loginCalls, id)
  /\ inputId' = <<>>
  /\ error' = ""
  /\ loading' = FALSE

\* a handleSubmit without the test of response.ok: any response that arrives
\* logs the user in
TeamFetchDoneNoOkTest(resp) ==
  /\ loginReq # NoId
  /\ loginReq' = NoId
  /\ IF resp.net
     THEN HandleLogin(loginReq)
     ELSE /\ error' = "Failed to fetch"
          /\ loading' = FALSE
          /\ UNCHANGED <<inputId, loginCalls, fplTeamId, appTeamId>>
  /\ teamResp' = resp
  /\ ev' = "response"
  /\ UNCHANGED <<loginVariant, fetchLog, chatVars, pollVars, fixVars, viewVars>>

\* handleSubmit from the response of the team-fetch call on
TeamFetchDone(resp) ==
  /\ loginReq # NoId
  /\ loginReq' = NoId
  /\ IF resp.net /\ resp.ok
     THEN HandleLogin(loginReq)
     ELSE /\ error' = IF resp.net THEN RejectionText(resp) ELSE "Failed to fetch"
          /\ loading' = FALSE
          /\ UNCHANGED <<inputId, loginCalls, fplTeamId, appTeamId>>
  /\ teamResp' = resp
  /\ ev' = "response"
  /\ UNCHANGED <<loginVariant, fetchLog, chatVars, pollVars, fixVars, viewVars>>

\* the paths a session can be opened at
Paths == {"/", "/login", "/team", "/chat", "/fixtures", "/chips", "/leagues", "/other"}

\* an App whose root route is the identifier screen for everybody
RouteElementRootOpen(path, tid) ==
  CASE path = "/" -> [view |-> "HomePage", to |-> ""]
    [] path = "/login" -> [view |-> "", to |-> "/"]
    [] OTHER ->
         IF tid # NoId
         THEN CASE path = "/team" -> [view |-> "TeamPitch", to |-> ""]
                [] path = "/chat" -> [view |-> "ChatPage", to |-> ""]
                [] path = "/fixtures" -> [view |-> "FixturesPage", to |-> ""]
                [] path = "/chips" -> [view |-> "ChipsPage", to |-> ""]
                [] path = "/leagues" -> [view |-> "LeaguesPage", to |-> ""]
                [] OTHER -> [view |-> "", to |-> "/team"]
         ELSE [view |-> "", to |-> "/"]

\* the element the <Routes> of App render for a path: a view, or a
\* <Navigate to=...>
RouteElement(path, tid) ==
  CASE path = "/" ->
         IF tid = NoId THEN [view |-> "HomePage", to |-> ""]
         ELSE [view |-> "", to |-> "/team"]
    [] path = "/login" -> [view |-> "", to |-> "/"]
    [] OTHER ->
         \* path="/*"
         IF tid # NoId
         THEN CASE path = "/team" -> [view |-> "TeamPitch", to |-> ""]
                [] path = "/chat" -> [view |-> "ChatPage", to |-> ""]
                [] path = "/fixtures" -> [view |-> "FixturesPage", to |-> ""]
                [] path = "/chips" -> [view |-> "ChipsPage", to |-> ""]
                [] path = "/leagues" -> [view |-> "LeaguesPage", to |-> ""]
                [] OTHER -> [view |-> "", to |-> "/team"]
         ELSE [view |-> "", to |-> "/"]

\* the view on screen once the redirects of the path are followed
RECURSIVE ResolveRoute(_, _)
ResolveRoute(path, tid) ==
  LET e == RouteElement(path, tid)
  IN IF e.view # "" THEN e.view ELSE ResolveRoute(e.to, tid)

\* localStorage.getItem('fplTeamId') || null
StoredOrNull(v) == IF v = <<>> THEN NoId ELSE v

\* the body of handleLogout: removeItem('fplTeamId'), setTeamId(null)
LogoutWrites ==
  /\ fplTeamId' = NoId
  /\ appTeamId' = NoId

\* handleLogout of App; the route shows a new LoginPage
HandleLogout ==
  /\ appTeamId # NoId
  /\ LogoutWrites
  /\ ev' = "step"
  /\ UNCHANGED <<loginVariant, inputId, error, loading, loginReq, fetchLog,
                 loginCalls, teamResp, chatVars, pollVars, fixVars, viewVars>>

\* ------------------------------------------------------------------------
\* FixturesPage
\* ------------------------------------------------------------------------
\* "switch": the revision that fetches on mount and colours with a switch;
\* "context": the revision whose effect is keyed on the provider's
\* isServerReady;  "poller": the revision with its own status poller
FxVariants == {"switch", "context", "poller"}

\* the values fixture.difficulty can have in the payload
Difficulties == 0..6

\* what fetchFixtures can get back: no response at all, a non-success code,
\* or the fixture_details of a team, here two fixtures
FixtureResponses ==
  {[net |-> FALSE, ok |-> FALSE, data |-> <<>>],
   [net |-> TRUE, ok |-> FALSE, data |-> <<>>]}
  \cup {[net |-> TRUE, ok |-> TRUE, data |-> <<a, b>>] : a \in Difficulties, b \in Difficulties}

\* getDifficultyColor of the revision
getDifficultyColor(v, difficulty) ==
  IF v = "switch"
  THEN CASE difficulty = 1 -> "bg-emerald-500"
         [] difficulty = 2 -> "bg-green-500"
         [] difficulty = 3 -> "bg-slate-500"
         [] difficulty = 4 -> "bg-red-500"
         [] difficulty = 5 -> "bg-red-700"
         [] OTHER -> "bg-gray-400"
  ELSE IF difficulty <= 2 THEN "bg-teal-600 hover:bg-teal-500"
       ELSE IF difficulty = 3 THEN "bg-slate-500 hover:bg-slate-400"
       ELSE IF difficulty = 4 THEN "bg-rose-600 hover:bg-rose-500"
       ELSE IF difficulty >= 5 THEN "bg-red-800 hover:bg-red-700"
       ELSE "bg-gray-400"

\* {!loading && !error && ...}: the list of fixtures is on screen
FxShown == fxMounted /\ ~fxLoading /\ fxError = ""

\* the class each fixture of the list is drawn with
FxClasses == [k \in DOMAIN fixturesData |-> getDifficultyColor(fxVariant, fixturesData[k])]

\* a state setter of a component that is no longer mounted does nothing
IfMounted(new, old) == IF fxMounted THEN new ELSE old

\* checkServerStatus of the page: ready iff data.players_in_master_df > 0
FxCheckResult(resp) == resp.net /\ resp.ok /\ resp.players > 0

\* the message checkServerStatus sets, if any
FxCheckMessage(resp, old) ==
  IF FxCheckResult(resp) THEN old
  ELSE IF resp.net /\ resp.ok THEN "starting" ELSE "unreachable"

\* the effect of the page runs after mount
FxMountEffect ==
  /\ fxMounted
  /\ fxPc = "idle"
  /\ CASE fxVariant = "switch" ->
            \* fetchFixtures()
            /\ fxError' = ""
            /\ fxFetches' = fxFetches + 1
            /\ fxPc' = "stopped"
            /\ UNCHANGED fxChecks
       [] fxVariant = "context" ->
            \* if (!isServerReady) { setLoading(true); return; }
            /\ fxError' = fxError
            /\ fxFetches' = IF isServerReady THEN fxFetches + 1 ELSE fxFetches
            /\ fxPc' = "stopped"
            /\ UNCHANGED fxChecks
       [] OTHER ->
            \* startFetching() up to its await of checkServerStatus()
            /\ fxError' = ""
            /\ fxChecks' = fxChecks + 1
            /\ fxPc' = "first"
            /\ UNCHANGED fxFetches
  /\ fxLoading' = TRUE
  /\ ev' = "step"
  /\ UNCHANGED <<fxVariant, fxMounted, fixturesData, fxStatusMessage, fxInflight,
                 chatVars, pollVars, loginVars, viewVars>>

\* the user leaves the page.  The effect returned nothing to React (the
\* function that clears the timer is the result of an async function nobody
\* awaits), so there is no cleanup to run.
FxUnmount ==
  /\ fxMounted
  /\ fxPc # "idle"
  /\ fxMounted' = FALSE
  /\ ev' = "step"
  /\ UNCHANGED <<fxVariant, fixturesData, fxLoading, fxError, fxStatusMessage, fxPc,
                 fxInflight, fxChecks, fxFetches, chatVars, pollVars, loginVars, viewVars>>

\* startFetching from the result of its first check on
FxFirstCheckDone(resp) ==
  /\ fxPc = "first"
  /\ IF FxCheckResult(resp)
     THEN /\ fxStatusMessage' = IfMounted("fetching", fxStatusMessage)
          /\ fxFetches' = fxFetches + 1
          /\ fxPc' = "stopped"
     ELSE /\ fxStatusMessage' = IfMounted(FxCheckMessage(resp, fxStatusMessage), fxStatusMessage)
          /\ fxPc' = "polling"
          /\ UNCHANGED fxFetches
  /\ ev' = "step"
  /\ UNCHANGED <<fxVariant, fxMounted, fixturesData, fxLoading, fxError, fxInflight,
                 fxChecks, chatVars, pollVars, loginVars, viewVars>>

\* the interval of the page fires: its callback starts a check and awaits it
FxTick ==
  /\ fxPc = "polling"
  /\ fxChecks < MaxChecks
  /\ fxInflight' = fxInflight + 1
  /\ fxChecks' = fxChecks + 1
  /\ ev' = "step"
  /\ UNCHANGED <<fxVariant, fxMounted, fixturesData, fxLoading, fxError, fxStatusMessage,
                 fxPc, fxFetches, chatVars, pollVars, loginVars, viewVars>>

\* if (ready) { clearInterval(interval); setStatusMessage(...); fetchFixtures(); }
FxTimerCheckDone(resp) ==
  /\ fxInflight > 0
  /\ fxInflight' = fxInflight - 1
  /\ IF FxCheckResult(resp)
     THEN /\ fxStatusMessage' = IfMounted("fetching", fxStatusMessage)
          /\ fxFetches' = fxFetches + 1
          /\ fxPc' = "stopped"
     ELSE /\ fxStatusMessage' = IfMounted(FxCheckMessage(resp, fxStatusMessage), fxStatusMessage)
          /\ UNCHANGED <<fxPc, fxFetches>>
  /\ ev' = "step"
  /\ UNCHANGED <<fxVariant, fxMounted, fixturesData, fxLoading, fxError, fxChecks,
                 chatVars, pollVars, loginVars, viewVars>>

\* the message the catch block of fetchFixtures shows
FxErrorText(resp) ==
  IF ~resp.net THEN "Failed to fetch"
  ELSE IF fxVariant = "switch" THEN "Failed to fetch fixture data."
  ELSE "Failed to fetch fixture data (Status: N)"

\* fetchFixtures from its response on
FxFetchDone(resp) ==
  /\ fxFetches > 0
  /\ fxFetches' = fxFetches - 1
  /\ fixturesData' = IF resp.net /\ resp.ok THEN IfMounted(resp.data, fixturesData)
                     ELSE fixturesData
  /\ fxError' = IF resp.net /\ resp.ok THEN fxError
                ELSE IfMounted(FxErrorText(resp), fxError)
  /\ fxLoading' = IfMounted(FALSE, fxLoading)
  /\ ev' = "step"
  /\ UNCHANGED <<fxVariant, fxMounted, fxStatusMessage, fxPc, fxInflight, fxChecks,
                 chatVars, pollVars, loginVars, viewVars>>

\* ------------------------------------------------------------------------
\* The routes of the App revisions
\* ------------------------------------------------------------------------
\* "home": App.jsx, whose root is HomePage;  "login": the revision with a
\* /login route in front of MainLayout;  "chatOnly": the revision with the
\* two routes /login and /chat
AppVariants == {"home", "login", "chatOnly"}

\* redirects followed when a path is resolved
MaxHops == 3

\* a set of routes in which /* sends everybody to /login
RouteElementOfLoginLoop(v, p, tid) ==
  IF p = "/login"
  THEN IF tid = NoId THEN [view |-> "LoginPage", to |-> ""]
       ELSE [view |-> "", to |-> "/team"]
  ELSE [view |-> "", to |-> "/login"]

\* the element the routes of a revision render at a path
RouteElementOf(v, p, tid) ==
  CASE v = "home" -> RouteElement(p, tid)
    [] v = "login" ->
         IF p = "/login"
         THEN IF tid = NoId THEN [view |-> "LoginPage", to |-> ""]
              ELSE [view |-> "", to |-> "/team"]
         ELSE \* path="/*"
              IF tid # NoId
              THEN CASE p = "/team" -> [view |-> "TeamPitch", to |-> ""]
                     [] p = "/chat" -> [view |-> "ChatPage", to |-> ""]
                     [] p = "/fixtures" -> [view |-> "FixturesPage", to |-> ""]
                     [] p = "/chips" -> [view |-> "ChipsPage", to |-> ""]
                     [] p = "/leagues" -> [view |-> "LeaguesPage", to |-> ""]
                     [] OTHER -> [view |-> "", to |-> "/team"]
              ELSE [view |-> "", to |-> "/login"]
    [] OTHER ->
         CASE p = "/login" ->
                IF tid = NoId THEN [view |-> "LoginPage", to |-> ""]
                ELSE [view |-> "", to |-> "/chat"]
           [] p = "/chat" ->
                IF tid # NoId THEN [view |-> "ChatPage", to |-> ""]
                ELSE [view |-> "", to |-> "/login"]
           [] OTHER ->
                [view |-> "", to |-> IF tid # NoId THEN "/chat" ELSE "/login"]

\* the number of redirects from a path to a view, or -1 if more than n
RECURSIVE HopsToView(_, _, _, _)
HopsToView(v, p, tid, n) ==
  LET e == RouteElementOf(v, p, tid)
  IN IF e.view # "" THEN 0
     ELSE IF n = 0 THEN -1
     ELSE LET h == HopsToView(v, e.to, tid, n - 1)
          IN IF h < 0 THEN -1 ELSE h + 1

\* the element at the current location is a <Navigate>
Redirecting == RouteElementOf(appVariant, location, appTeamId).view = ""

\* the user opens a path (address bar or link) while a view is on screen
OpenPath(p) ==
  /\ ~Redirecting
  /\ p # location
  /\ location' = p
  /\ ev' = "step"
  /\ UNCHANGED <<appVariant, chatVars, pollVars, loginVars, fixVars, leagueVars,
                 chipVars>>

\* <Navigate to=...> is rendered: the location becomes its target
Redirect ==
  /\ Redirecting
  /\ location' = RouteElementOf(appVariant, location, appTeamId).to
  /\ ev' = "step"
  /\ UNCHANGED <<appVariant, chatVars, pollVars, loginVars, fixVars, leagueVars,
                 chipVars>>

\* ------------------------------------------------------------------------
\* LeaguesPage and ChipsPage
\* ------------------------------------------------------------------------
\* live-gameweek requests issued in one session
MaxLive == 3

\* what a data request can get back: no response at all, success, or a
\* non-success code whose body is JSON with or without a detail, or no JSON
DataResponses ==
  {[net |-> FALSE, ok |-> FALSE, json |-> FALSE, detail |-> Undef],
   [net |-> TRUE, ok |-> TRUE, json |-> TRUE, detail |-> Undef],
   [net |-> TRUE, ok |-> FALSE, json |-> FALSE, detail |-> Undef],
   [net |-> TRUE, ok |-> FALSE, json |-> TRUE, detail |-> Undef],
   [net |-> TRUE, ok |-> FALSE, json |-> TRUE, detail |-> "No live data"]}

\* fetchLiveData up to its await of fetch
FetchLiveData ==
  IF appTeamId = NoId
  THEN /\ lgError' = "Team ID or Gameweek not provided."
       /\ lgLoading' = FALSE
       /\ UNCHANGED <<lgInflight, lgIssued>>
  ELSE /\ lgLoading' = TRUE
       /\ lgError' = ""
       /\ lgInflight' = lgInflight + 1
       /\ lgIssued' = lgIssued + 1

\* the user opens LeaguesPage: first render, then the effect calls
\* fetchLiveData() and sets the interval
LgMountEffect ==
  /\ ~lgMounted
  /\ lgIssued < MaxLive
  /\ lgMounted' = TRUE
  /\ liveData' = "null"
  /\ FetchLiveData
  /\ lgTimer' = TRUE
  /\ ev' = "step"
  /\ UNCHANGED <<chatVars, pollVars, loginVars, fixVars, routeVars, chipVars>>

\* setInterval(fetchLiveData, 60000) fires
LgTick ==
  /\ lgMounted
  /\ lgTimer
  /\ lgIssued < MaxLive
  /\ FetchLiveData
  /\ ev' = "tick"
  /\ UNCHANGED <<lgMounted, lgTimer, liveData, chatVars, pollVars, loginVars,
                 fixVars, routeVars, chipVars>>

\* the message that reaches the catch block of fetchLiveData
LgErrorText(resp) ==
  IF ~resp.net THEN "Failed to fetch"
  ELSE IF ~resp.json THEN "SyntaxError"
  ELSE DetailOr(resp.detail, "Failed to fetch live data.")

\* fetchLiveData from the response on
LgFetchDone(resp) ==
  /\ lgInflight > 0
  /\ lgInflight' = lgInflight - 1
  /\ IF resp.net /\ resp.ok
     THEN /\ liveData' = "data"
          /\ UNCHANGED lgError
     ELSE /\ lgError' = LgErrorText(resp)
          /\ UNCHANGED liveData
  /\ lgLoading' = FALSE
  /\ ev' = "step"
  /\ UNCHANGED <<lgMounted, lgTimer, lgIssued, chatVars, pollVars, loginVars,
                 fixVars, routeVars, chipVars>>

\* the user leaves LeaguesPage: the cleanup of the effect clears the
\* interval; the responses still awaited find no component to update
LgUnmount ==
  /\ lgMounted
  /\ lgMounted' = FALSE
  /\ lgTimer' = FALSE
  /\ lgInflight' = 0
  /\ ev' = "step"
  /\ UNCHANGED <<lgIssued, lgLoading, lgError, liveData, chatVars, pollVars,
                 loginVars, fixVars, routeVars, chipVars>>

\* the effect of ChipsPage runs after mount: fetchChipData up to its await
CpMountEffect ==
  /\ cpPc = "idle"
  /\ cpLoading' = TRUE
  /\ cpError' = ""
  /\ cpPc' = "fetching"
  /\ ev' = "step"
  /\ UNCHANGED <<chipData, chatVars, pollVars, loginVars, fixVars, routeVars,
                 leagueVars>>

\* fetchChipData from the response on
CpFetchDone(resp) ==
  /\ cpPc = "fetching"
  /\ cpPc' = "done"
  /\ IF resp.net /\ resp.ok
     THEN /\ chipData' = "data"
          /\ UNCHANGED cpError
     ELSE /\ cpError' = IF resp.net THEN "Failed to fetch chip recommendations."
                        ELSE "Failed to fetch"
          /\ UNCHANGED chipData
  /\ cpLoading' = FALSE
  /\ ev' = "step"
  /\ UNCHANGED <<chatVars, pollVars, loginVars, fixVars, routeVars, leagueVars>>

\* ------------------------------------------------------------------------
\* Initial states and specifications
\* ------------------------------------------------------------------------

\* ChatPage after mount: the greeting effect has run.  The revisions that
\* take teamId as a prop always greet; the context-based one greets only if
\* the provider has a teamId.
ChatStart ==
  /\ chatVariant \in ChatVariants
  /\ messages = IF chatVariant = "ctx"
                THEN GreetingEffect(chatVariant, <<>>, teamId)
                ELSE <<[role |-> BotRole(chatVariant), text |-> Greeting, error |-> FALSE]>>
  /\ input = <<>>
  /\ isLoading = FALSE
  /\ requests = <<>>
  /\ chunksRead = 0

\* ServerStatusProvider after its first render
ProviderStart ==
  /\ provVariant \in ProvVariants
  /\ isServerReady = FALSE
  /\ statusMessage = Msg("connecting")
  /\ currentGameweek = NoGameweek
  /\ teamId \in IF provVariant = "static" THEN {Undef} ELSE {Undef, "t1"}
  /\ userTeamData = Undef
  /\ teamFetches = {}
  /\ runs = <<>>
  /\ checksStarted = 0
  /\ readySeen = FALSE
  /\ lateNotReady = FALSE
  /\ backendUp = FALSE

\* ServerStatusProvider after its first status check reported ready
ProviderReady ==
  /\ provVariant = "keyed"
  /\ isServerReady = TRUE
  /\ statusMessage = [text |-> "ready", gw |-> 1]
  /\ currentGameweek = 1
  /\ teamId \in {Undef, "t1"}
  /\ userTeamData = Undef
  /\ teamFetches = {}
  /\ runs = <<[pc |-> "stopped", inflight |-> 0, team |-> teamId, firstResult |-> "ready"]>>
  /\ checksStarted = 1
  /\ readySeen = TRUE
  /\ lateNotReady = FALSE
  /\ backendUp = FALSE

\* App and LoginPage after their first render
LoginStart ==
  /\ loginVariant \in LoginVariants
  /\ fplTeamId \in {NoId, <<"7">>}
  /\ appTeamId = StoredOrNull(fplTeamId)
  /\ inputId = <<>>
  /\ error = ""
  /\ loading = FALSE
  /\ loginReq = NoId
  /\ fetchLog = <<>>
  /\ loginCalls = <<>>
  /\ teamResp = [net |-> FALSE, ok |-> FALSE, json |-> FALSE, detail |-> Undef]

\* FixturesPage after its first render
FixturesStart ==
  /\ fxVariant \in FxVariants
  /\ fxMounted = TRUE
  /\ fixturesData = <<>>
  /\ fxLoading = TRUE
  /\ fxError = ""
  /\ fxStatusMessage = "connecting"
  /\ fxPc = "idle"
  /\ fxInflight = 0
  /\ fxChecks = 0
  /\ fxFetches = 0

\* the router at a path
RouteStart ==
  /\ appVariant \in AppVariants
  /\ location \in Paths

\* LeaguesPage not opened yet
LeaguesStart ==
  /\ lgMounted = FALSE
  /\ lgTimer = FALSE
  /\ lgInflight = 0
  /\ lgIssued = 0
  /\ lgLoading = TRUE
  /\ lgError = ""
  /\ liveData = "null"

\* ChipsPage after its first render
ChipsStart ==
  /\ cpPc = "idle"
  /\ cpLoading = TRUE
  /\ cpError = ""
  /\ chipData = "null"

\* App.jsx at its root with the two data views not opened
ViewsIdle ==
  /\ appVariant = "home"
  /\ location = "/"
  /\ LeaguesStart
  /\ ChipsStart

Init ==
  /\ ProviderStart
  /\ ChatStart
  /\ LoginStart
  /\ FixturesStart
  /\ ev = "mount"
  /\ RouteStart
  /\ LeaguesStart
  /\ ChipsStart

NextChat ==
  \/ \E v \in Inputs : SetInput(v)
  \/ HandleSend
  \/ \E i \in 1..MaxSends : FetchReject(i)
  \/ \E i \in 1..MaxSends, ok \in BOOLEAN, hasBody \in BOOLEAN : FetchResolve(i, ok, hasBody)
  \/ \E i \in 1..MaxSends, bytes \in Chunks : ReadChunk(i, bytes)
  \/ \E i \in 1..MaxSends : ReadDone(i)
  \/ \E i \in 1..MaxSends : ReadError(i)

NextPoller ==
  \/ MountEffect
  \/ \E t \in TeamIds \cup {Undef} : NavigateTeam(t)
  \/ \E r \in 1..MaxRuns, resp \in StatusResponses : FirstCheckDone(r, resp)
  \/ \E r \in 1..MaxRuns : Tick(r)
  \/ \E r \in 1..MaxRuns, resp \in StatusResponses : TimerCheckDone(r, resp)
  \/ \E t \in TeamIds, ok \in BOOLEAN : UserTeamDone(t, ok)

NextFixtures ==
  \/ FxMountEffect
  \/ FxUnmount
  \/ \E resp \in StatusResponses : FxFirstCheckDone(resp)
  \/ FxTick
  \/ \E resp \in StatusResponses : FxTimerCheckDone(resp)
  \/ \E resp \in FixtureResponses : FxFetchDone(resp)

NextLogin ==
  \/ \E v \in IdInputs : SetInputId(v)
  \/ HandleSubmit
  \/ \E resp \in TeamResponses : TeamFetchDone(resp)
  \/ HandleLogout

\* handleLogin and handleLogout as functions of App, called in any order
\* with any argument: the views call them only in the states HandleSubmit,
\* TeamFetchDone and HandleLogout describe
CallHandleLogin(id) ==
  /\ Len(loginCalls) < MaxCalls
  /\ HandleLogin(id)
  /\ ev' = "login"
  /\ UNCHANGED <<loginVariant, loginReq, fetchLog, teamResp, chatVars, pollVars,
                 fixVars, viewVars>>

CallHandleLogout ==
  /\ LogoutWrites
  /\ ev' = "logout"
  /\ UNCHANGED <<loginVariant, inputId, error, loading, loginReq, fetchLog,
                 loginCalls, teamResp, chatVars, pollVars, fixVars, viewVars>>

NextAppCalls ==
  \/ \E id \in IdInputs : CallHandleLogin(id)
  \/ CallHandleLogout

\* the router with the two handlers of App: a view calls them, so a view is
\* on screen when they run
NextRoutes ==
  \/ \E p \in Paths : OpenPath(p)
  \/ Redirect
  \/ ~Redirecting /\ CallHandleLogin(<<"7">>)
  \/ ~Redirecting /\ CallHandleLogout

NextDataViews ==
  \/ LgMountEffect
  \/ LgTick
  \/ \E resp \in DataResponses : LgFetchDone(resp)
  \/ LgUnmount
  \/ CpMountEffect
  \/ \E resp \in DataResponses : CpFetchDone(resp)

Next ==
  \/ NextChat \/ NextPoller \/ BackendComesUp \/ NextLogin \/ NextFixtures
  \/ NextAppCalls \/ NextRoutes \/ NextDataViews

\* the whole front end
Spec == Init /\ [][Next]_vars

\* one ChatPage, mounted while the provider is still polling or after it has
\* seen the backend ready.  The revisions that take teamId as a prop read
\* nothing from the provider: one state of the provider is enough for them.
InitChat ==
  /\ \/ ProviderStart /\ provVariant = "keyed"
     \/ ProviderReady
  /\ ChatStart
  /\ chatVariant # "ctx" => (teamId = Undef /\ ~isServerReady)
  /\ LoginStart
  /\ loginVariant = "plain"
  /\ fplTeamId = <<"7">>
  /\ FixturesStart
  /\ fxVariant = "switch"
  /\ ev = "mount"
  /\ ViewsIdle

SpecChat == InitChat /\ [][NextChat]_vars

\* one ServerStatusProvider
InitPoller ==
  /\ ProviderStart
  /\ ChatStart
  /\ chatVariant = "ctx"
  /\ LoginStart
  /\ loginVariant = "plain"
  /\ fplTeamId = <<"7">>
  /\ FixturesStart
  /\ fxVariant = "switch"
  /\ ev = "mount"
  /\ ViewsIdle

SpecPoller == InitPoller /\ [][NextPoller]_vars

\* one App with its LoginPage
InitLogin ==
  /\ LoginStart
  /\ ProviderStart
  /\ provVariant = "static"
  /\ ChatStart
  /\ chatVariant = "first"
  /\ FixturesStart
  /\ fxVariant = "switch"
  /\ ev = "mount"
  /\ ViewsIdle

SpecLogin == InitLogin /\ [][NextLogin]_vars

\* App alone: any sequence of calls of its two handlers
SpecAppCalls == InitLogin /\ [][NextAppCalls]_vars

\* the router of each App revision, opened at any path with or without a
\* stored identifier; a <Navigate> that is rendered takes effect
InitRoutes ==
  /\ LoginStart
  /\ loginVariant = "plain"
  /\ ProviderStart
  /\ provVariant = "static"
  /\ ChatStart
  /\ chatVariant = "first"
  /\ FixturesStart
  /\ fxVariant = "switch"
  /\ RouteStart
  /\ LeaguesStart
  /\ ChipsStart
  /\ ev = "mount"

SpecRoutes == InitRoutes /\ [][NextRoutes]_vars /\ WF_vars(Redirect)

\* the view the routes render at the current location
OnScreen(view) == RouteElementOf(appVariant, location, appTeamId).view = view

\* App.jsx under a keyed ServerStatusProvider that polls from its mount on,
\* with the session either at the identifier screen or, with a stored
\* identifier, at one view of the dashboard
InitStatus ==
  /\ ProviderStart
  /\ provVariant = "keyed"
  /\ teamId = "t1"
  /\ ChatStart
  /\ chatVariant = "ctx"
  /\ LoginStart
  /\ loginVariant = "plain"
  /\ appVariant = "home"
  /\ location \in {"/", "/chat", "/fixtures", "/leagues", "/chips"}
  /\ location = "/" <=> fplTeamId = NoId
  /\ FixturesStart
  /\ fxVariant \in {"switch", "poller"}
  /\ location # "/fixtures" => fxVariant = "switch"
  /\ LeaguesStart
  /\ ChipsStart
  /\ ev = "mount"

\* the poller of the provider beside the view that is on screen: each view
\* acts only while the routes render it
\* (one login, one question, and a change of the URL's team before the
\* question is asked)
NextStatus ==
  \/ MountEffect
  \/ OnScreen("ChatPage") /\ requests = <<>> /\ NavigateTeam("t2")
  \/ \E r \in 1..MaxRuns, resp \in StatusResponses : FirstCheckDone(r, resp)
  \/ \E r \in 1..MaxRuns : Tick(r)
  \/ \E r \in 1..MaxRuns, resp \in StatusResponses : TimerCheckDone(r, resp)
  \/ Redirect
  \/ OnScreen("HomePage") /\ loginCalls = <<>> /\ CallHandleLogin(<<"7">>)
  \/ appTeamId # NoId /\ ~Redirecting /\ CallHandleLogout
  \/ OnScreen("ChatPage") /\ SetInput(<<" ", "q">>)
  \/ OnScreen("ChatPage") /\ requests = <<>> /\ HandleSend
  \/ \E i \in 1..MaxSends : OnScreen("ChatPage") /\ FetchReject(i)
  \/ \E i \in 1..MaxSends, ok \in BOOLEAN, hasBody \in BOOLEAN :
       OnScreen("ChatPage") /\ FetchResolve(i, ok, hasBody)
  \/ \E i \in 1..MaxSends : OnScreen("ChatPage") /\ ReadChunk(i, <<"A">>)
  \/ \E i \in 1..MaxSends : OnScreen("ChatPage") /\ ReadDone(i)
  \/ OnScreen("FixturesPage") /\ FxMountEffect
  \/ \E resp \in StatusResponses : OnScreen("FixturesPage") /\ FxFirstCheckDone(resp)
  \/ OnScreen("FixturesPage") /\ FxTick
  \/ \E resp \in StatusResponses : OnScreen("FixturesPage") /\ FxTimerCheckDone(resp)
  \/ \E resp \in FixtureResponses :
       resp.data \in {<<>>, <<1, 5>>} /\ OnScreen("FixturesPage") /\ FxFetchDone(resp)
  \/ OnScreen("LeaguesPage") /\ LgMountEffect
  \/ OnScreen("LeaguesPage") /\ LgTick
  \/ \E resp \in DataResponses : OnScreen("LeaguesPage") /\ LgFetchDone(resp)
  \/ OnScreen("ChipsPage") /\ CpMountEffect
  \/ \E resp \in DataResponses : OnScreen("ChipsPage") /\ CpFetchDone(resp)

SpecStatus == InitStatus /\ [][NextStatus]_vars

\* LeaguesPage and ChipsPage of a logged-in session
InitDataViews ==
  /\ LoginStart
  /\ loginVariant = "plain"
  /\ fplTeamId = <<"7">>
  /\ ProviderStart
  /\ provVariant = "static"
  /\ ChatStart
  /\ chatVariant = "first"
  /\ FixturesStart
  /\ fxVariant = "switch"
  /\ ViewsIdle
  /\ ev = "mount"

SpecDataViews == InitDataViews /\ [][NextDataViews]_vars

\* the context-based ChatPage under a provider that has seen the backend
\* ready, while the user moves between teams.  The status checks that a
\* change of teamId starts are left unanswered here: the readiness flag is
\* already set and ChatPage reads nothing else that they change.
InitChatTeam ==
  /\ ProviderReady
  /\ ChatStart
  /\ chatVariant = "ctx"
  /\ LoginStart
  /\ loginVariant = "plain"
  /\ fplTeamId = <<"7">>
  /\ FixturesStart
  /\ fxVariant = "switch"
  /\ ev = "mount"
  /\ ViewsIdle

\* which turn a step writes to does not depend on what is typed or streamed:
\* one question and one increment are enough here
NextChatTeam ==
  \/ SetInput(<<" ", "q">>)
  \/ HandleSend
  \/ \E i \in 1..MaxSends : FetchReject(i)
  \/ \E i \in 1..MaxSends, ok \in BOOLEAN, hasBody \in BOOLEAN : FetchResolve(i, ok, hasBody)
  \/ \E i \in 1..MaxSends : ReadChunk(i, <<"A">>)
  \/ \E i \in 1..MaxSends : ReadDone(i)
  \/ \E i \in 1..MaxSends : ReadError(i)
  \/ \E t \in TeamIds \cup {Undef} : NavigateTeam(t)

SpecChatTeam == InitChatTeam /\ [][NextChatTeam]_vars

\* teamId ? <MainLayout> ... <ChatPage/> ... : <Navigate to="/" />
ChatMounted == appTeamId # NoId

\* a session that starts at the identifier form and goes on to the
\* context-based ChatPage once an identifier was accepted
InitRetry ==
  /\ ProviderReady
  /\ teamId = "t1"
  /\ ChatStart
  /\ chatVariant = "ctx"
  /\ LoginStart
  /\ fplTeamId = NoId
  /\ FixturesStart
  /\ fxVariant = "switch"
  /\ ev = "mount"
  /\ ViewsIdle

NextRetry ==
  \/ \E v \in IdInputs : SetInputId(v)
  \/ HandleSubmit
  \/ \E resp \in TeamResponses : TeamFetchDone(resp)
  \/ ChatMounted /\ SetInput(<<" ", "q">>)
  \/ ChatMounted /\ HandleSend
  \/ \E i \in 1..MaxSends : ChatMounted /\ FetchReject(i)
  \/ \E i \in 1..MaxSends, ok \in BOOLEAN, hasBody \in BOOLEAN :
       ChatMounted /\ FetchResolve(i, ok, hasBody)
  \/ \E i \in 1..MaxSends : ChatMounted /\ ReadChunk(i, <<"A">>)
  \/ \E i \in 1..MaxSends : ChatMounted /\ ReadDone(i)
  \/ \E i \in 1..MaxSends : ChatMounted /\ ReadError(i)

SpecRetry == InitRetry /\ [][NextRetry]_vars

\* one ServerStatusProvider whose teamId stays as it is, with a status
\* endpoint that at some moment starts to answer ready.  The effect runs
\* after mount, a set timer fires, and every status check gets its answer.
NextPollerLive ==
  \/ MountEffect
  \/ BackendComesUp
  \/ \E r \in 1..MaxRuns, resp \in StatusResponses : FirstCheckDone(r, resp)
  \/ \E r \in 1..MaxRuns : Tick(r)
  \/ \E r \in 1..MaxRuns, resp \in StatusResponses : TimerCheckDone(r, resp)

SpecPollerLive ==
  /\ InitPoller
  /\ [][NextPollerLive]_vars
  /\ WF_vars(MountEffect)
  /\ WF_vars(\E r \in 1..MaxRuns, resp \in StatusResponses : FirstCheckDone(r, resp))
  /\ WF_vars(\E r \in 1..MaxRuns : Tick(r))
  /\ WF_vars(\E r \in 1..MaxRuns, resp \in StatusResponses : TimerCheckDone(r, resp))

\* one FixturesPage; the revision that reads the provider is mounted while
\* the provider is still polling or after it has seen the backend ready
InitFixtures ==
  /\ \/ ProviderStart /\ provVariant = "static"
     \/ ProviderReady /\ teamId = Undef
  /\ FixturesStart
  /\ fxVariant # "context" => ~isServerReady
  /\ ChatStart
  /\ chatVariant = "first"
  /\ LoginStart
  /\ loginVariant = "plain"
  /\ fplTeamId = <<"7">>
  /\ ev = "mount"
  /\ ViewsIdle

SpecFixtures == InitFixtures /\ [][NextFixtures]_vars

\* ------------------------------------------------------------------------
\* Properties
\* ------------------------------------------------------------------------

\* the assistant turn that request r filled
TurnOf(r) == messages[r.turn]

\* some increment is followed by an equal, non-empty one
HasRepeat(incs) ==
  \E k \in 1..(Len(incs) - 1) : incs[k] = incs[k + 1] /\ incs[k] # <<>>

C2_NoSuppression ==
  \A i \in DOMAIN requests :
    (requests[i].outcome \in {"pending", "ended"} /\ HasRepeat(requests[i].incs)) =>
      TurnOf(requests[i]).text = Flatten(requests[i].incs)

\* C3: the readiness flag never goes back from true to false, whatever status
\* response is handled afterwards.
C3_ReadyNeverReverts == [][isServerReady => isServerReady']_vars

\* a failed or not-ready status response was handled after readiness
C3_Witness == isServerReady /\ lateNotReady

C5_SingleFlight ==
  /\ [](Cardinality(InFlight) <= 1)
  /\ [][isLoading => (Len(requests') = Len(requests) /\ Len(messages') = Len(messages))]_vars

\* a submit with a sendable text was turned down while a request was in flight
C5_Witness ==
  /\ ev = "rejected"
  /\ isLoading
  /\ InFlight # {}
  /\ Trim(input) # <<>>
  /\ chatVariant = "ctx" => isServerReady

\* a step of handleSend: it returned at its guard or it issued a request
SendStep == ev' = "rejected" \/ Len(requests') > Len(requests)

\* C6: handleSend changes nothing and issues no request when the input is
\* blank, or isLoading is true, or the readiness flag is false.
C6_GuardedSendIsNoOp ==
  [][(SendStep /\ (Trim(input) = <<>> \/ isLoading \/ ~isServerReady)) =>
       (messages' = messages /\ input' = input /\ isLoading' = isLoading
        /\ requests' = requests)]_vars

\* C7: in the context-based ChatPage the step that issues a chat request
\* appends exactly the user turn with the submitted input and an empty
\* assistant turn without error, sets isLoading and clears the input.
C7_AcceptedSendAppendsTwoTurns ==
  [][(chatVariant = "ctx" /\ Len(requests') > Len(requests)) =>
       /\ Trim(input) # <<>> /\ ~isLoading /\ isServerReady
       /\ messages' = messages \o
            <<[role |-> "user", text |-> input, error |-> FALSE],
              [role |-> "assistant", text |-> <<>>, error |-> FALSE]>>
       /\ requests' = Append(requests, requests'[Len(requests')])
       /\ requests'[Len(requests')].phase = "fetching"
       /\ requests'[Len(requests')].body.question = input
       /\ isLoading' = TRUE
       /\ input' = <<>>]_vars

\* a send was accepted after an earlier one had finished
C7_Witness ==
  /\ chatVariant = "ctx"
  /\ Len(requests) = 2
  /\ requests[2].phase = "fetching"
  /\ Len(messages) >= 4
  /\ messages[Len(messages)].text = <<>>
  /\ messages[Len(messages) - 1].role = "user"

\* one or more decimal digits and nothing else
DecimalDigits(s) == Len(s) >= 1 /\ \A k \in 1..Len(s) : s[k] \in Digits

\* C8: a submit of an identifier that is not one or more decimal digits issues
\* no team-fetch call, does not invoke onLogin, leaves the stored team id as
\* it is and sets the error text to the validation message.
C8_InvalidIdRejectedLocally ==
  [][(ev' = "submit" /\ ~DecimalDigits(inputId)) =>
       /\ error' = ValidationMsg
       /\ fetchLog' = fetchLog
       /\ loginReq' = loginReq
       /\ loading' = loading
       /\ loginCalls' = loginCalls
       /\ fplTeamId' = fplTeamId
       /\ appTeamId' = appTeamId]_vars

\* an identifier with a digit and another character was submitted
C8_Witness ==
  /\ ev = "submit"
  /\ error = ValidationMsg
  /\ ~DecimalDigits(inputId)
  /\ \E k \in DOMAIN inputId : inputId[k] \in Digits

\* C9: after a non-success response to the team-fetch call whose JSON body
\* has a non-empty detail, the error text is that detail and nobody is
\* logged in, in every LoginPage revision.
C9_DetailIsShown ==
  (/\ ev = "response"
   /\ teamResp.net /\ ~teamResp.ok /\ teamResp.json
   /\ teamResp.detail \notin {Undef, ""}) =>
     /\ error = teamResp.detail
     /\ appTeamId = NoId

\* a timer of some run is set
TimerOn == \E r \in DOMAIN runs : runs[r].pc = "polling"

\* what holds of every run of pollServer: its timer is created only after its
\* first check reported not ready
RunsWellFormed ==
  \A r \in DOMAIN runs :
    /\ runs[r].pc = "first" <=> runs[r].firstResult = "pending"
    /\ runs[r].pc = "polling" => runs[r].firstResult = "notReady"
    /\ runs[r].firstResult = "ready" => (runs[r].pc = "stopped" /\ runs[r].inflight = 0)
    /\ runs[r].inflight > 0 => runs[r].firstResult = "notReady"

\* every run of pollServer starts with a check
StartChecksAtOnce ==
  Len(runs') > Len(runs) =>
    /\ Len(runs') = Len(runs) + 1
    /\ runs'[Len(runs')].pc = "first"
    /\ checksStarted' = checksStarted + 1

CheckCompletes(r) ==
  \/ runs[r].pc = "first" /\ runs'[r].pc # "first"
  \/ runs'[r].inflight < runs[r].inflight

\* C11: a status check that got no response or a non-success code is handled
\* inside the poller: the readiness flag, the gameweek and the team data stay
\* as they are, only the status message changes, no check is started by the
\* handling itself, and the timer of the run is set afterwards (it is created
\* after a first check, it stays set after a timer check) unless it had been
\* cleared before.
C11_FailedCheckKeepsPolling ==
  [][\A r \in DOMAIN runs :
       (CheckCompletes(r) /\ statusMessage'.text = "unreachable") =>
         /\ isServerReady' = isServerReady
         /\ readySeen' = readySeen
         /\ currentGameweek' = currentGameweek
         /\ teamId' = teamId
         /\ userTeamData' = userTeamData
         /\ teamFetches' = teamFetches
         /\ checksStarted' = checksStarted
         /\ runs'[r].pc = IF runs[r].pc = "stopped" THEN "stopped" ELSE "polling"]_vars

\* the check handled last had failed, the backend is still not ready, and the
\* timer is set and has fired again
C11_Witness ==
  /\ statusMessage.text = "unreachable"
  /\ ~isServerReady
  /\ Len(runs) = 1
  /\ runs[1].pc = "polling"
  /\ runs[1].inflight > 0
  /\ checksStarted >= 3

\* from the first user turn on the roles are user, assistant, user, ... and
\* the last turn is an assistant turn
Alternates(ms) ==
  \A f \in DOMAIN ms :
    (ms[f].role = "user" /\ \A k \in 1..(f - 1) : ms[k].role # "user") =>
      /\ \A k \in f..Len(ms) :
           ms[k].role = IF (k - f) % 2 = 0 THEN "user" ELSE BotRole(chatVariant)
      /\ ms[Len(ms)].role = BotRole(chatVariant)

\* a step that removes no turn and replaces none: every turn stays where it
\* is with its role, and all turns but the last stay as they are
AppendOnlyStep ==
  /\ Len(messages') >= Len(messages)
  /\ \A k \in DOMAIN messages :
       /\ messages'[k].role = messages[k].role
       /\ k < Len(messages) => messages'[k] = messages[k]

\* C12: the conversation is append-only and alternating: no step removes or
\* replaces a turn, and from the first user turn on the roles alternate user,
\* assistant and the last turn is an assistant turn.
C12_AppendOnlyAlternating ==
  /\ [](Alternates(messages))
  /\ [][AppendOnlyStep]_vars

\* C12, amended: as C12 for every step that leaves teamId as it is; a change
\* of teamId to a team replaces the whole conversation by the greeting for
\* that team, and a change to no team leaves the conversation as it is.
C12_AppendOnlyBetweenTeamChanges ==
  /\ [](Alternates(messages))
  /\ [][/\ teamId' = teamId => AppendOnlyStep
        /\ (teamId' # teamId /\ teamId' # Undef) => messages' = <<GreetingTurn(teamId')>>
        /\ (teamId' # teamId /\ teamId' = Undef) => messages' = messages]_vars

\* a greeting, a send that failed and a send whose stream ended, with no
\* change of team in between
C12_Witness ==
  /\ Len(runs) = 1
  /\ Len(requests) = 2
  /\ requests[1].outcome = "failed"
  /\ requests[2].outcome = "ended"
  /\ requests[2].incs # <<>>
  /\ Len(messages) = 5

\* the turn at k is the placeholder of a request that is in flight
PlaceholderInFlight(k) == \E i \in InFlight : requests[i].turn = k

\* C13: a step changes the text of a turn only if the turn is the placeholder
\* of the send in flight; every other turn (the greeting, the user turns, the
\* earlier assistant turns) stays in the conversation with its text, so that
\* nothing changes once the stream has ended or failed.
C13_OnlyOwnPlaceholderChanges ==
  [][\A k \in DOMAIN messages :
       ~PlaceholderInFlight(k) =>
         /\ k \in DOMAIN messages'
         /\ messages'[k].text = messages[k].text]_vars

\* request i fails in this step
ChatFails(i) ==
  requests[i].outcome = "pending" /\ requests'[i].outcome \in {"failed", "nobody"}

\* the team-fetch call fails in this step
LoginFails == ev' = "response" /\ ~(teamResp'.net /\ teamResp'.ok)

\* C14: a failed user action leaves the view ready for a retry.  After the
\* step in which a chat request fails (fetch rejected, non-success status, no
\* body, read error) isLoading is false and the guard of handleSend accepts the
\* same question again; after the step in which the team-fetch call fails
\* (no response, or a non-success status) loading is false, nobody is logged
\* in, the identifier field is as the user left it, the identifier that was
\* submitted passes the validation again, and an error text is shown.  Neither flag is ever true without a request awaiting its end.
C14_FailureAllowsRetry ==
  /\ [](isLoading => InFlight # {})
  /\ [](loading => loginReq # NoId)
  /\ [][\A i \in DOMAIN requests :
          ChatFails(i) =>
            /\ ~isLoading'
            /\ Trim(requests[i].body.question) # <<>>
            /\ isServerReady']_vars
  /\ [][LoginFails =>
          /\ ~loading'
          /\ loginReq' = NoId
          /\ appTeamId' = NoId
          /\ inputId' = inputId
          /\ DecimalDigits(loginReq)
          /\ error' # ""]_vars

\* the team-fetch call failed and was repeated with the same identifier, and
\* later a chat request failed and the same question was sent again
C14_Witness ==
  /\ Len(fetchLog) = 2
  /\ fetchLog[1] = fetchLog[2]
  /\ Len(requests) = 2
  /\ requests[1].outcome = "failed"
  /\ requests[2].body.question = requests[1].body.question
  /\ requests[2].phase = "fetching"
  /\ isLoading

\* the place of a class on the scale from easiest (1) to hardest (5); 0 is
\* the class for a value outside the scale
TierOf(cls) ==
  CASE cls \in {"bg-emerald-500", "bg-teal-600 hover:bg-teal-500"} -> 1
    [] cls = "bg-green-500" -> 2
    [] cls \in {"bg-slate-500", "bg-slate-500 hover:bg-slate-400"} -> 3
    [] cls \in {"bg-red-500", "bg-rose-600 hover:bg-rose-500"} -> 4
    [] cls \in {"bg-red-700", "bg-red-800 hover:bg-red-700"} -> 5
    [] OTHER -> 0

\* C15: in every FixturesPage revision, two fixtures on screen whose
\* difficulties are different values of 1..5 are drawn with different
\* classes, the easier one with the class lower on the scale.
C15_FiveDistinctTiers ==
  FxShown =>
    \A i \in DOMAIN fixturesData, j \in DOMAIN fixturesData :
      (/\ fixturesData[i] \in 1..5
       /\ fixturesData[j] \in 1..5
       /\ fixturesData[i] < fixturesData[j]) =>
        /\ FxClasses[i] # FxClasses[j]
        /\ TierOf(FxClasses[i]) < TierOf(FxClasses[j])

\* C18: once the page that started polling is unmounted, its timer is not
\* set and no status check is started any more.
C18_UnmountStopsPolling ==
  /\ [](~fxMounted => fxPc # "polling")
  /\ [][~fxMounted => fxChecks' = fxChecks]_vars

\* the views inside MainLayout
DashboardViews == {"TeamPitch", "ChatPage", "FixturesPage", "ChipsPage", "LeaguesPage"}

\* C16: the screen is decided by the stored entry alone, at session start and
\* after: while fplTeamId is stored every path ends at a view of the
\* dashboard, never at the identifier screen, and while it is absent every
\* path ends at the identifier screen.
C16_StoredIdDecidesScreen ==
  \A p \in Paths :
    IF fplTeamId # NoId
    THEN ResolveRoute(p, appTeamId) \in DashboardViews
    ELSE ResolveRoute(p, appTeamId) = "HomePage"

\* a session that starts with a stored identifier: the root path and the
\* login path end at the team view
C16_Witness ==
  /\ ev = "mount"
  /\ fplTeamId # NoId
  /\ ResolveRoute("/", appTeamId) = "TeamPitch"
  /\ ResolveRoute("/login", appTeamId) = "TeamPitch"
  /\ ResolveRoute("/chat", appTeamId) = "ChatPage"

\* C17: once the readiness flag is true no step changes a field of the
\* provider's status: the flag stays true, the status message and the current
\* gameweek stay as the first ready response left them.
C17_ReadyStatusIsFrozen ==
  [][isServerReady =>
       /\ isServerReady'
       /\ statusMessage' = statusMessage
       /\ currentGameweek' = currentGameweek]_vars

\* a status check is awaiting its answer
CheckPending == \E r \in DOMAIN runs : runs[r].pc = "first" \/ runs[r].inflight > 0

\* C19: the poller does not give up: as long as no check has reported ready,
\* the timer of a run whose first check reported not ready stays set, however
\* many checks have failed; and once the status endpoint answers ready from
\* then on, with a check awaiting its answer or one more check within the
\* bound of the model, the readiness flag eventually becomes true.
C19_EventuallyReady ==
  /\ [](\A r \in DOMAIN runs :
          (runs[r].firstResult = "notReady" /\ ~readySeen) => runs[r].pc = "polling")
  /\ ((backendUp /\ (checksStarted < MaxChecks \/ CheckPending)) ~> isServerReady)

\* the first check and at least one check of the timer reported not ready,
\* then the endpoint started to answer ready and the flag was set
C19_Witness ==
  /\ isServerReady
  /\ backendUp
  /\ Len(runs) = 1
  /\ runs[1].firstResult = "notReady"
  /\ runs[1].pc = "stopped"
  /\ checksStarted >= 3
  /\ runs[1].inflight = 0

\* C20: isLoading is true exactly while a chat request is outstanding: the
\* step that sets it issues a request, the step that clears it is the end or
\* the failure of the request, and while it is true no step issues a request.
C20_BusyWhileOutstanding ==
  /\ [](isLoading <=> InFlight # {})
  /\ [][(~isLoading /\ isLoading') => Len(requests') = Len(requests) + 1]_vars
  /\ [][(isLoading /\ ~isLoading') =>
          \E i \in DOMAIN requests :
            /\ requests[i].phase # "done"
            /\ requests'[i].phase = "done"
            /\ requests'[i].outcome \in {"ended", "failed"}]_vars
  /\ [][isLoading => Len(requests') = Len(requests)]_vars

\* the stream of a request has delivered an increment and has not ended; a
\* submit of a sendable question was turned down meanwhile
C20_Witness ==
  /\ ev = "rejected"
  /\ isLoading
  /\ isServerReady
  /\ Trim(input) # <<>>
  /\ \E i \in DOMAIN requests :
       requests[i].phase = "reading" /\ requests[i].incs # <<>>

\* the text a LoginPage revision passes to Error when the body of a
\* non-success response carries no usable detail
GenericFallback(v) ==
  CASE v = "plain" -> "Team ID not found. Please check and try again."
    [] v = "catchJson" -> "Team ID not found or invalid."
    [] OTHER -> "Team ID not found. Please check the ID and try again."

\* C23: in every LoginPage revision, after a non-success response to the
\* team-fetch call whose body has no detail or is not JSON, the error text is
\* the generic fallback of that revision and nobody is logged in.
C23_FallbackIsShown ==
  (/\ ev = "response"
   /\ teamResp.net /\ ~teamResp.ok
   /\ (~teamResp.json \/ teamResp.detail = Undef)) =>
     /\ error = GenericFallback(loginVariant)
     /\ appTeamId = NoId

\* C25: onLogin is invoked and the identifier is written to the fplTeamId slot
\* only in the step that handles a success response of the team-fetch call
\* issued for that same identifier, which is one or more decimal digits; a
\* validation failure, a network failure and a non-success response leave the
\* slot and the calls of onLogin as they are.
C25_LoginOnlyAfterFetchSuccess ==
  /\ [][(loginCalls' # loginCalls \/ fplTeamId' \notin {fplTeamId, NoId}) =>
          /\ DecimalDigits(fplTeamId')
          /\ loginCalls' = Append(loginCalls, fplTeamId')
          /\ appTeamId' = fplTeamId'
          /\ ev' = "response"
          /\ teamResp'.net /\ teamResp'.ok
          /\ loginReq = fplTeamId'
          /\ fetchLog # <<>>
          /\ fetchLog[Len(fetchLog)] = fplTeamId']_vars
  /\ [][((ev' = "submit" /\ ~DecimalDigits(inputId))
          \/ (ev' = "response" /\ ~(teamResp'.net /\ teamResp'.ok))) =>
          /\ fplTeamId' = fplTeamId
          /\ loginCalls' = loginCalls]_vars

\* the team-fetch call for one identifier got a non-success response, the
\* user typed another identifier, and the call for that one logged them in
C25_Witness ==
  /\ ev = "response"
  /\ teamResp.ok
  /\ Len(fetchLog) = 2
  /\ fetchLog[1] # fetchLog[2]
  /\ loginCalls = <<fetchLog[2]>>
  /\ fplTeamId = fetchLog[2]
  /\ appTeamId = fetchLog[2]

\* C24: after any sequence of calls of handleLogin and handleLogout the
\* teamId of App equals the value of the fplTeamId slot (null when the slot is
\* absent); after a call of handleLogin both are its argument; after a call of
\* handleLogout, the first or a repeated one, both are null.
C24_StateMirrorsSlot ==
  /\ appTeamId = fplTeamId
  /\ ev = "login" =>
       /\ loginCalls # <<>>
       /\ appTeamId = loginCalls[Len(loginCalls)]
  /\ ev = "logout" => appTeamId = NoId

\* two logins with different identifiers, then a logout
C24_Witness ==
  /\ ev = "logout"
  /\ Len(loginCalls) = 2
  /\ loginCalls[1] # loginCalls[2]
  /\ fplTeamId = NoId
  /\ appTeamId = NoId

\* the runs of pollServer whose repeating timer is set
TimersOn == {r \in DOMAIN runs : runs[r].pc = "polling"}

\* C28: a ServerStatusProvider has at most one repeating poll timer at any
\* time, also after the effect ran again for another teamId, and has none
\* once a status check has reported ready.
C28_AtMostOneTimer ==
  /\ Cardinality(TimersOn) <= 1
  /\ readySeen => TimersOn = {}

\* C29: the update of the conversation for one increment is idempotent: the
\* updater handed to setMessages, applied a second time to its own result
\* with the same increment, returns that result (context-based revision and
\* the revision that drops a repeated increment).
C29_UpdaterIdempotent ==
  [][\A i \in DOMAIN requests :
       (/\ chatVariant \in {"ctx", "dedup"}
        /\ i \in DOMAIN requests'
        /\ Len(requests'[i].incs) > Len(requests[i].incs)) =>
         LET chunk == requests'[i].incs[Len(requests'[i].incs)]
             bot == requests'[i].botResponse
             once == ChunkUpdate(messages, chunk, bot)
         IN ChunkApplied(requests[i], chunk) =>
              ChunkUpdate(once, chunk, bot) = once]_vars

\* C30: the history in the body of a chat request of the context-based
\* ChatPage is the conversation as it was before the send: one entry per
\* earlier turn, in order, with that turn's role and text (the greeting and a
\* failed assistant turn with its apology included), and neither the question
\* being asked nor the new placeholder; the question travels beside it.
C30_HistoryIsPriorConversation ==
  [][Len(requests') > Len(requests) =>
       LET b == requests'[Len(requests')].body
       IN /\ Len(b.history) = Len(messages)
          /\ \A k \in 1..Len(messages) :
               /\ b.history[k].role = messages[k].role
               /\ b.history[k].text = messages[k].text
          /\ b.question = input
          /\ Len(messages') = Len(b.history) + 2
          /\ messages'[Len(messages') - 1].text = b.question
          /\ messages'[Len(messages')].text = <<>>]_vars

\* the second request of a conversation carries the greeting, the first
\* question and the assistant turn that failed with the apology
C30_Witness ==
  /\ Len(requests) = 2
  /\ LET h == requests[2].body.history
     IN /\ Len(h) = 3
        /\ \E t \in TeamIds : h[1] = [role |-> "assistant", text |-> Greeting \o <<t>>]
        /\ h[2].role = "user"
        /\ h[3] = [role |-> "assistant", text |-> Apology]

\* C27: in the FixturesPage revisions that wait for readiness, a step issues
\* the fixture request only when readiness has been reported (the provider's
\* flag in the context-based revision, a ready status check in the revision
\* with its own poller) and only if no earlier ready check of this mount has
\* issued it already: one request per mount.
C27_FetchOnceAfterReady ==
  [][(fxVariant \in {"context", "poller"} /\ fxFetches' > fxFetches) =>
       /\ fxFetches' = fxFetches + 1
       /\ fxVariant = "context" => (isServerReady /\ fxPc = "idle")
       /\ fxVariant = "poller" => (fxPc \in {"first", "polling"} /\ fxPc' = "stopped")]_vars

\* C26: in each App revision routing settles: from every path, with and
\* without a teamId, a bounded chain of redirects ends at a view; a redirect
\* that is on screen is followed until a view is; and while teamId is null no
\* view of the dashboard is rendered at any path.
C26_RoutingSettles ==
  /\ [](\A p \in Paths, tid \in {NoId, <<"7">>} :
          HopsToView(appVariant, p, tid, MaxHops) \in 0..2)
  /\ [](appTeamId = NoId =>
          \A p \in Paths :
            RouteElementOf(appVariant, p, appTeamId).view \notin DashboardViews)
  /\ (Redirecting ~> ~Redirecting)

\* after a login and a logout on a dashboard path of App.jsx the redirect was
\* followed to the root, where the identifier screen is shown
C26_Witness ==
  /\ appVariant = "home"
  /\ ev = "step"
  /\ loginCalls # <<>>
  /\ appTeamId = NoId
  /\ location = "/"
  /\ ~Redirecting

\* C22: a data request of a view that failed is not issued again by the view
\* itself: after a failed live-gameweek request of LeaguesPage the next one is
\* issued only when the user opens the page again, and after a failed
\* chip-recommendation request ChipsPage issues none.
C22_NoAutomaticReissue ==
  /\ [][(lgError # "" /\ lgIssued' > lgIssued) => ~lgMounted]_vars
  /\ [][cpError # "" => cpPc' # "fetching"]_vars

\* the three fields of the provider's status
StatusFields == <<isServerReady, statusMessage, currentGameweek>>

\* C21: the readiness flag, the status message and the current gameweek of
\* the provider change only in a step in which a status check of the
\* provider's poller is handled; a step of a view (send, increment, end of a
\* stream), a login, a logout, a redirect, a change of team and a step of a
\* data view leave the three as they are.
C21_StatusChangesOnlyInChecks ==
  /\ [][StatusFields' # StatusFields =>
          \E r \in DOMAIN runs : CheckCompletes(r)]_vars
  /\ [][(\/ chatVars' # chatVars
         \/ loginVars' # loginVars
         \/ fixVars' # fixVars
         \/ viewVars' # viewVars
         \/ teamId' # teamId) => StatusFields' = StatusFields]_vars

\* the provider reported ready with a gameweek after a failed check, and on
\* ChatPage an increment of an answer has been shown
C21_Witness ==
  /\ isServerReady
  /\ currentGameweek # NoGameweek
  /\ checksStarted >= 2
  /\ OnScreen("ChatPage")
  /\ \E i \in DOMAIN requests : requests[i].incs # <<>>

====
